---- MODULE Spec2Model ----
(***************************************************************************)
(* Model of llm_cerebras/cerebras.py: the model-catalog cache              *)
(* (load_cached_models, save_models_to_cache, fetch_models_from_api,       *)
(* get_models), the "refresh" command and the chat call (execute).         *)
(***************************************************************************)
EXTENDS Integers, Sequences, FiniteSets, TLC

VARIABLES
    cache,            \* the cache file cerebras_models.json
    now,              \* time.time(), in seconds
    ticks,            \* how many times the clock advanced
    api_key,          \* TRUE iff llm.get_key finds CEREBRAS_API_KEY
    HAVE_JSONSCHEMA,  \* TRUE iff "import jsonschema" succeeded at import time
    op,               \* the last catalog operation run by the host, and what it did
    call,             \* the current or last execute() call (a generator)
    probe,            \* the last direct application of a helper method, and its result
    race              \* two processes in get_models on one cache file

vars == <<cache, now, ticks, api_key, HAVE_JSONSCHEMA, op, call, probe, race>>

-----------------------------------------------------------------------------
(* Bounds of the model *)

\* the clock advances at most this many times
MaxTicks == 2
\* number of model entries in a catalog response
MaxData == 2
\* number of lines in a streamed chat response
MaxLines == 2

-----------------------------------------------------------------------------
(* Constants of the program *)

cache_duration == 24 * 60 * 60

EmptyMap == [k \in {} |-> ""]

fallback_models ==
    [k \in {"cerebras-llama3.1-8b", "cerebras-llama3.3-70b",
            "cerebras-llama-4-scout-17b-16e-instruct",
            "cerebras-deepseek-r1-distill-llama-70b"} |->
        CASE k = "cerebras-llama3.1-8b" -> "llama3.1-8b"
          [] k = "cerebras-llama3.3-70b" -> "llama-3.3-70b"
          [] k = "cerebras-llama-4-scout-17b-16e-instruct" -> "llama-4-scout-17b-16e-instruct"
          [] k = "cerebras-deepseek-r1-distill-llama-70b" -> "DeepSeek-R1-Distill-Llama-70B"]

-----------------------------------------------------------------------------
(* The cache file *)

\* A cache file state: kind says what open()/json.load() find; for a JSON
\* mapping, tsKind/ts describe its 'timestamp' entry and models its 'models'.
CacheFile(kind, tsKind, ts, models) ==
    [kind |-> kind, tsKind |-> tsKind, ts |-> ts, models |-> models]

AbsentCache == CacheFile("absent", "missing", 0, EmptyMap)

\* What the file can hold before the program ever wrote it.
InitialCacheFiles ==
    { CacheFile(k, "missing", 0, EmptyMap) :
        k \in {"absent", "unreadable", "notjson", "nonmapping"} }
    \cup { CacheFile("mapping", tk, 0, fallback_models) : tk \in {"missing", "nonnumeric"} }

\* a truth value that takes no cached mapping
Truthy_never(m) == FALSE

\* Python truth value of a dict (or of None, modelled as out # "models")
Truthy(m) == DOMAIN m # {}

LoadNone == [out |-> "none", models |-> EmptyMap]
LoadRaise == [out |-> "raise", models |-> EmptyMap]

\* load_cached_models with the expiry test written >= instead of >
load_cached_models_ge(c, t) ==
    CASE c.kind \in {"absent", "unreadable", "notjson"} -> LoadNone
      [] c.kind = "nonmapping" -> LoadRaise
      [] c.kind = "mapping" ->
            IF c.tsKind = "nonnumeric" THEN LoadRaise
            ELSE LET cache_time == IF c.tsKind = "missing" THEN 0 ELSE c.ts
                 IN  IF t - cache_time >= cache_duration
                     THEN LoadNone
                     ELSE [out |-> "models", models |-> c.models]

\* load_cached_models: out = "none" for a return of None, "models" for a
\* returned value, "raise" for an exception the except clause does not name.
load_cached_models(c, t) ==
    CASE c.kind = "absent" -> LoadNone                 \* not cache_file.exists()
      [] c.kind = "unreadable" -> LoadNone             \* OSError, caught
      [] c.kind = "notjson" -> LoadNone                \* JSONDecodeError, caught
      [] c.kind = "nonmapping" -> LoadRaise            \* cache_data.get: AttributeError
      [] c.kind = "mapping" ->
            IF c.tsKind = "nonnumeric" THEN LoadRaise  \* time.time() - cache_time: TypeError
            ELSE LET cache_time == IF c.tsKind = "missing" THEN 0 ELSE c.ts
                 IN  IF t - cache_time > cache_duration
                     THEN LoadNone
                     ELSE [out |-> "models", models |-> c.models]

SaveOutcomes == {"ok", "open_failed", "write_failed"}

\* save_models_to_cache: "open_failed" is an OSError of mkdir or open (file
\* untouched), "write_failed" an OSError of json.dump after open(.., 'w')
\* truncated the file; both are caught.
save_models_to_cache(c, models, t, outcome) ==
    CASE outcome = "ok" -> CacheFile("mapping", "num", t, models)
      [] outcome = "open_failed" -> c
      [] outcome = "write_failed" -> CacheFile("notjson", "missing", 0, EmptyMap)

-----------------------------------------------------------------------------
(* The catalog endpoint *)

\* ids of the entries of a catalog response; "" is an entry with an empty or
\* absent id (model.get('id', '') is '' for both)
ModelIds == {"llama3.1-8b", ""}

CatalogData == UNION { [1..n -> ModelIds] : n \in 0..MaxData }

CatalogResponse(kind, data) == [kind |-> kind, data |-> data]

\* neterr: httpx.get raises; status: non-2xx; notjson: response.json() raises;
\* nodata: a 2xx JSON mapping without 'data'; data: a 2xx body with 'data'
CatalogResponses ==
    { CatalogResponse(k, <<>>) : k \in {"neterr", "status", "notjson", "nodata"} }
    \cup { CatalogResponse("data", d) : d \in CatalogData }

Prefixed(model_id) == "cerebras-" \o model_id

\* the loop over api_data['data'] (lines 126-131)
RECURSIVE BuildModels(_, _, _)
BuildModels(data, i, models) ==
    IF i > Len(data) THEN models
    ELSE LET model_id == data[i]
         IN  BuildModels(data, i + 1,
                 IF model_id # ""
                 THEN (Prefixed(model_id) :> model_id) @@ models
                 ELSE models)

GET_MODELS == "GET /models"
POST_CHAT == "POST /chat/completions"

\* fetch_models_from_api without the test of the credential: the request is
\* sent with the header "Bearer None" and refused
fetch_models_from_api_unchecked(key, resp) ==
    CASE resp.kind \in {"none", "neterr", "status", "notjson"} ->
                [models |-> fallback_models, http |-> <<GET_MODELS>>, ok |-> FALSE]
      [] resp.kind = "nodata" ->
                [models |-> EmptyMap, http |-> <<GET_MODELS>>, ok |-> TRUE]
      [] resp.kind = "data" ->
                [models |-> BuildModels(resp.data, 1, EmptyMap),
                 http |-> <<GET_MODELS>>, ok |-> TRUE]

\* fetch_models_from_api: models is the returned mapping, http the requests
\* it sent, ok is TRUE iff it returned from the try body
fetch_models_from_api(key, resp) ==
    IF ~key
    THEN [models |-> fallback_models, http |-> <<>>, ok |-> FALSE]
    ELSE CASE resp.kind \in {"neterr", "status", "notjson"} ->
                [models |-> fallback_models, http |-> <<GET_MODELS>>, ok |-> FALSE]
           [] resp.kind = "nodata" ->
                [models |-> EmptyMap, http |-> <<GET_MODELS>>, ok |-> TRUE]
           [] resp.kind = "data" ->
                [models |-> BuildModels(resp.data, 1, EmptyMap),
                 http |-> <<GET_MODELS>>, ok |-> TRUE]

\* get_models: the whole call; resp and saveOutcome are what the network and
\* the file system answer if they are asked
get_models(refresh, c, t, key, resp, saveOutcome) ==
    LET cached == IF refresh THEN LoadNone ELSE load_cached_models(c, t)
    IN  IF cached.out = "raise"
        THEN [outcome |-> "raised", result |-> EmptyMap, cache |-> c,
              http |-> <<>>, fetched |-> FALSE, fetchOk |-> FALSE]
        ELSE IF cached.out = "models" /\ Truthy(cached.models)
        THEN [outcome |-> "returned", result |-> cached.models, cache |-> c,
              http |-> <<>>, fetched |-> FALSE, fetchOk |-> FALSE]
        ELSE LET f == fetch_models_from_api(key, resp)
             IN  [outcome |-> "returned", result |-> f.models,
                  cache |-> save_models_to_cache(c, f.models, t, saveOutcome),
                  http |-> f.http, fetched |-> TRUE, fetchOk |-> f.ok]

-----------------------------------------------------------------------------
(* Catalog operations run by the host *)

NoOp ==
    [name |-> "none", outcome |-> "returned", result |-> EmptyMap,
     http |-> <<>>, fetched |-> FALSE, fetchOk |-> FALSE,
     cacheBefore |-> AbsentCache, at |-> 0, respKind |-> "none",
     exit |-> 0, printed |-> "nothing", count |-> 0]

\* TRUE iff get_models gets as far as fetch_models_from_api
WillFetch(refresh, c, t) ==
    \/ refresh
    \/ LET cached == load_cached_models(c, t)
       IN  cached.out = "none" \/ (cached.out = "models" /\ ~Truthy(cached.models))

NoResponse == CatalogResponse("none", <<>>)

\* the answers the catalog endpoint and the file system can give to a call
\* of get_models; a call that asks neither has one behaviour
CatalogAnswers(refresh, c, t, key) ==
    IF WillFetch(refresh, c, t) /\ key THEN CatalogResponses ELSE {NoResponse}

SaveAnswers(refresh, c, t) ==
    IF WillFetch(refresh, c, t) THEN SaveOutcomes ELSE {"ok"}

OpRecord(name, g, resp, c, t, exit, printed, count) ==
    [name |-> name, outcome |-> g.outcome, result |-> g.result, http |-> g.http,
     fetched |-> g.fetched, fetchOk |-> g.fetchOk,
     cacheBefore |-> c, at |-> t, respKind |-> resp.kind,
     exit |-> exit, printed |-> printed, count |-> count]

\* register_models: the host's hook calls get_models()
RegisterModels ==
    \E resp \in CatalogAnswers(FALSE, cache, now, api_key),
       saveOutcome \in SaveAnswers(FALSE, cache, now) :
        LET g == get_models(FALSE, cache, now, api_key, resp, saveOutcome)
        IN  /\ cache' = g.cache
            /\ op' = OpRecord("register_models", g, resp, cache, now, 0, "nothing", 0)
            /\ UNCHANGED <<now, ticks, api_key, HAVE_JSONSCHEMA, call, probe, race>>

\* the "refresh" command: refresh_models() is get_models(refresh=True)
refresh(c, t, key, resp, saveOutcome) ==
    LET g == get_models(TRUE, c, t, key, resp, saveOutcome)
    IN  IF g.outcome = "raised"
        THEN [g |-> g, exit |-> 1, printed |-> "error", count |-> 0]
        ELSE [g |-> g, exit |-> 0, printed |-> "models",
              count |-> Cardinality(DOMAIN g.result)]

RefreshCommand ==
    \E resp \in CatalogAnswers(TRUE, cache, now, api_key),
       saveOutcome \in SaveAnswers(TRUE, cache, now) :
        LET r == refresh(cache, now, api_key, resp, saveOutcome)
        IN  /\ cache' = r.g.cache
            /\ op' = OpRecord("refresh", r.g, resp, cache, now, r.exit, r.printed, r.count)
            /\ UNCHANGED <<now, ticks, api_key, HAVE_JSONSCHEMA, call, probe, race>>

\* time passes between operations
TickSteps == {cache_duration, cache_duration + 1}

Tick ==
    \E d \in TickSteps :
        /\ ticks < MaxTicks
        /\ ticks' = ticks + 1
        /\ now' = now + d
        /\ UNCHANGED <<cache, api_key, HAVE_JSONSCHEMA, op, call, probe, race>>

-----------------------------------------------------------------------------
(* Two processes in get_models on one cache file *)

Procs == {"A", "B"}

\* number of calls of get_models by one process
MaxCalls == 2

\* The text json.dump(cache_data, f, indent=2) writes, as blocks of equal
\* size: one for the braces and the timestamp, one for each entry of 'models'.
Block(models, ts, i) == [models |-> models, ts |-> ts, i |-> i]

Document(models, ts) ==
    [i \in 1..(1 + Cardinality(DOMAIN models)) |-> Block(models, ts, i)]

\* the file holds one whole document and nothing else
Complete(file) == Len(file) > 0 /\ file = Document(file[1].models, file[1].ts)

\* what cache_file.exists(), open(cache_file, 'r') and json.load find: an
\* empty file and a document followed by more text are JSONDecodeErrors
ReadFile(exists, file) ==
    IF ~exists THEN AbsentCache
    ELSE IF Complete(file) THEN CacheFile("mapping", "num", file[1].ts, file[1].models)
    ELSE CacheFile("notjson", "missing", 0, EmptyMap)

\* the buffered text is written at offset 0 of the writer's own descriptor
\* when the with block closes the file; what lies beyond it stays
Overwrite(file, doc) ==
    [i \in 1..(IF Len(file) > Len(doc) THEN Len(file) ELSE Len(doc)) |->
        IF i <= Len(doc) THEN doc[i] ELSE file[i]]

IdleProc == [pc |-> "idle", models |-> EmptyMap, hit |-> FALSE, calls |-> 0]

\* the file, the processes, and the models written so far in the order the
\* writes ended
NoRace ==
    [exists |-> FALSE, file |-> <<>>, writes |-> <<>>, proc |-> [p \in Procs |-> IdleProc]]

\* the catalog answers tried in the race: they give documents of 5, 1 and 2 blocks
RaceResponses ==
    { CatalogResponse("neterr", <<>>), CatalogResponse("nodata", <<>>),
      CatalogResponse("data", <<"llama3.1-8b">>) }

\* lines 154-160 of get_models in process p: the cache is read and, on a
\* miss, the catalog is fetched
RaceStart(p) ==
    /\ race.proc[p].pc \in {"idle", "done"}
    /\ race.proc[p].calls < MaxCalls
    /\ \E resp \in CatalogAnswers(FALSE, ReadFile(race.exists, race.file), now, api_key)
                   \cap (RaceResponses \cup {NoResponse}) :
          LET g == get_models(FALSE, ReadFile(race.exists, race.file), now, api_key, resp, "ok")
          IN  race' = [race EXCEPT !.proc[p] =
                          [pc |-> IF g.fetched THEN "fetched" ELSE "done",
                           models |-> g.result, hit |-> ~g.fetched, calls |-> @.calls + 1]]
    /\ UNCHANGED <<cache, now, ticks, api_key, HAVE_JSONSCHEMA, op, call, probe>>

\* line 97 in process p: open(cache_file, 'w') creates or truncates the file
RaceOpen(p) ==
    /\ race.proc[p].pc = "fetched"
    /\ race' = [race EXCEPT !.exists = TRUE, !.file = <<>>, !.proc[p].pc = "opened"]
    /\ UNCHANGED <<cache, now, ticks, api_key, HAVE_JSONSCHEMA, op, call, probe>>

\* lines 98-99 in process p: json.dump and the end of the with block
RaceWrite(p) ==
    /\ race.proc[p].pc = "opened"
    /\ race' = [race EXCEPT !.file = Overwrite(@, Document(race.proc[p].models, now)),
                            !.writes = Append(@, race.proc[p].models),
                            !.proc[p].pc = "done"]
    /\ UNCHANGED <<cache, now, ticks, api_key, HAVE_JSONSCHEMA, op, call, probe>>

RaceInit ==
    /\ cache = AbsentCache
    /\ now = 0
    /\ ticks = 0
    /\ api_key = TRUE
    /\ HAVE_JSONSCHEMA = TRUE
    /\ op = NoOp
    /\ call = [pc |-> "idle"]        \* no chat call in this specification
    /\ probe = [fn |-> "none"]
    /\ race = NoRace

RaceNext ==
    \/ \E p \in Procs : RaceStart(p)
    \/ \E p \in Procs : RaceOpen(p)
    \/ \E p \in Procs : RaceWrite(p)

RaceSpec == RaceInit /\ [][RaceNext]_vars

-----------------------------------------------------------------------------
(* JSON texts and values of chat responses *)

EmptyFields == [k \in {} |-> [t |-> "null", n |-> 0, s |-> ""]]

\* a scalar: t is its Python type
JInt(n) == [t |-> "int", n |-> n, s |-> ""]
JStr(str) == [t |-> "str", n |-> 0, s |-> str]
JBool(b) == [t |-> "bool", n |-> IF b THEN 1 ELSE 0, s |-> ""]
JNull == [t |-> "null", n |-> 0, s |-> ""]

\* a parsed value: a dict of scalars, a list, or a scalar
JObject(fields) == [kind |-> "dict", scalar |-> JNull, fields |-> fields]
JList == [kind |-> "list", scalar |-> JNull, fields |-> EmptyFields]
JScalar(v) == [kind |-> "scalar", scalar |-> v, fields |-> EmptyFields]
\* json.loads raised JSONDecodeError
JSONDecodeError == [kind |-> "JSONDecodeError", scalar |-> JNull, fields |-> EmptyFields]

\* the message contents the provider answers with
Contents ==
    { "{\"x\": 3}", "{\"x\":3}", "{\"x\": \"3\"}", "{}", "[3]",
      "{\"x\": 3}\nextra text" }

\* json.loads on the texts of Contents
json_loads(text) ==
    CASE text = "{\"x\": 3}" -> JObject("x" :> JInt(3))
      [] text = "{\"x\":3}" -> JObject("x" :> JInt(3))
      [] text = "{\"x\": \"3\"}" -> JObject("x" :> JStr("3"))
      [] text = "{}" -> JObject(EmptyFields)
      [] text = "[3]" -> JList
      [] OTHER -> JSONDecodeError

\* json.dumps (default separators ", " and ": ") on the values json_loads gives
json_dumps(v) ==
    CASE v = JObject("x" :> JInt(3)) -> "{\"x\": 3}"
      [] v = JObject("x" :> JStr("3")) -> "{\"x\": \"3\"}"
      [] v = JObject(EmptyFields) -> "{}"
      [] v = JList -> "[3]"

-----------------------------------------------------------------------------
(* Schemas *)

\* a property of a schema; description is "" when the property has none
Property(type, description) == [type |-> type, description |-> description]

NoProperties == [k \in {} |-> Property("string", "")]

\* A value of prompt.schema, or a value _process_schema returns. kind is its
\* Python type: "none" (None), "dict", "str", or "int", "bool", "list" for the
\* other values json.loads gives. For a dict: type is its 'type', order the
\* keys of its 'properties' in insertion order, required its 'required' ([]
\* when it has none). For a str: text is its pieces (see SchemaTexts).
SchemaValue(kind, type, order, properties, required, text) ==
    [given |-> kind # "none", kind |-> kind, type |-> type, order |-> order,
     properties |-> properties, required |-> required, text |-> text]

\* prompt.schema: None, a dict that is a JSON Schema, or a str
NoSchema == SchemaValue("none", "object", <<>>, NoProperties, <<>>, <<>>)
DictSchema(order, properties, required) ==
    SchemaValue("dict", "object", order, properties, required, <<>>)

\* the default of _process_schema for a value that is neither dict nor str
DefaultSchema == DictSchema(<<>>, NoProperties, <<>>)

\* A schema given as a str. Its text is a sequence of pieces: "," ":" " " and
\* "\n" are these characters, any other piece is a run of other characters.
StrSchema(text) == SchemaValue("str", "", <<>>, NoProperties, <<>>, text)

\* the schemas of the prompts: none, two object schemas, and a text that
\* is the JSON number 3
Schemas ==
    { NoSchema,
      DictSchema(<<"x">>, "x" :> Property("integer", ""), <<"x">>),
      DictSchema(<<"x">>, "x" :> Property("string", ""), <<>>),
      StrSchema(<<"3">>) }

\* the value json.loads gives when it is no dict; kind is its Python type
\* ("none" for None)
NonDict(kind) == SchemaValue(kind, "", <<>>, NoProperties, <<>>, <<>>)

\* "".join(text)
RECURSIVE Join(_)
Join(text) == IF text = <<>> THEN "" ELSE Head(text) \o Join(Tail(text))

\* sep in text
Contains(text, sep) == \E i \in DOMAIN text : text[i] = sep

\* text.find(sep), for a text that contains sep
Find(text, sep) == CHOOSE i \in DOMAIN text : text[i] = sep /\ \A j \in 1..(i - 1) : text[j] # sep

\* text.split(sep, 1), for a text that contains sep
split1(text, sep) ==
    << SubSeq(text, 1, Find(text, sep) - 1), SubSeq(text, Find(text, sep) + 1, Len(text)) >>

\* text.split(sep)
RECURSIVE split(_, _)
split(text, sep) ==
    IF ~Contains(text, sep) THEN <<text>>
    ELSE <<split1(text, sep)[1]>> \o split(split1(text, sep)[2], sep)

Whitespace == {" ", "\n"}

\* text.strip()
RECURSIVE strip(_)
strip(text) ==
    IF text = <<>> THEN text
    ELSE IF Head(text) \in Whitespace THEN strip(Tail(text))
    ELSE IF text[Len(text)] \in Whitespace THEN strip(SubSeq(text, 1, Len(text) - 1))
    ELSE text

\* text.lower(): of the pieces of the model only INT has upper-case letters
lower(text) == [i \in DOMAIN text |-> IF text[i] = "INT" THEN "int" ELSE text[i]]

\* type_mapping.get(field_type, "string")
type_mapping(field_type) ==
    CASE field_type = "int" -> "integer"
      [] field_type = "float" -> "number"
      [] field_type = "str" -> "string"
      [] field_type = "string" -> "string"
      [] field_type = "bool" -> "boolean"
      [] OTHER -> "string"

\* the texts of the model that json.loads accepts, with their values
SchemaJson ==
    ("3" :> NonDict("int")) @@ ("[3]" :> NonDict("list")) @@ ("\"name\"" :> NonDict("str"))
    @@ ("true" :> NonDict("bool")) @@ ("null" :> NonDict("none"))
    @@ ("{\"type\":\"string\"}" :> SchemaValue("dict", "string", <<>>, NoProperties, <<>>, <<>>))

\* lines 333-362: the loop over parts; acc holds properties (with the
\* insertion order of its keys) and required
RECURSIVE Fields(_, _, _)
Fields(parts, i, acc) ==
    IF i > Len(parts) THEN acc
    ELSE LET part == parts[i]
             field_def == IF Contains(part, ":") THEN split1(part, ":")[1] ELSE part
             description == IF Contains(part, ":") THEN split1(part, ":")[2] ELSE <<>>
             field_name == IF Contains(field_def, " ")
                           THEN Join(split1(field_def, " ")[1]) ELSE Join(field_def)
             field_type == IF Contains(field_def, " ")
                           THEN Join(lower(split1(field_def, " ")[2])) ELSE "string"
             json_type == type_mapping(field_type)
             property == Property(json_type,
                             IF description # <<>> THEN Join(strip(description)) ELSE "")
         IN  Fields(parts, i + 1,
                 [order |-> IF field_name \in DOMAIN acc.properties THEN acc.order
                            ELSE Append(acc.order, field_name),
                  properties |-> (field_name :> property) @@ acc.properties,
                  required |-> Append(acc.required, field_name)])

\* lines 328-331: the parts of a text that is no JSON
Parts(text) ==
    IF Contains(text, ",") /\ ~Contains(text, "\n")
    THEN [i \in DOMAIN split(text, ",") |-> strip(split(text, ",")[i])]
    ELSE LET lines == SelectSeq(split(text, "\n"), LAMBDA p : strip(p) # <<>>)
         IN  [i \in DOMAIN lines |-> strip(lines[i])]

\* _process_schema: a dict is returned as it is, a str gives the value of
\* json.loads or, when json.loads raises, the schema of its fields
_process_schema(schema) ==
    CASE schema.kind = "dict" -> schema
      [] schema.kind = "str" ->
            IF Join(schema.text) \in DOMAIN SchemaJson
            THEN SchemaJson[Join(schema.text)]
            ELSE LET acc == Fields(Parts(schema.text), 1,
                                [order |-> <<>>, properties |-> NoProperties, required |-> <<>>])
                 IN  DictSchema(acc.order, acc.properties, acc.required)
      [] OTHER -> DefaultSchema

\* isinstance(value, <the Python types the reduced validator names>)
IsInstance(v, prop_type) ==
    CASE prop_type = "string" -> v.t = "str"
      [] prop_type = "integer" -> v.t \in {"int", "bool"}
      [] prop_type = "number" -> v.t \in {"int", "bool", "float"}
      [] prop_type = "boolean" -> v.t = "bool"
      [] prop_type = "array" -> FALSE
      [] prop_type = "object" -> FALSE
      [] OTHER -> TRUE

\* the JSON Schema meaning of "type" for a scalar instance
JsonSchemaType(v, prop_type) ==
    CASE prop_type = "string" -> v.t = "str"
      [] prop_type = "integer" -> v.t = "int"
      [] prop_type = "number" -> v.t \in {"int", "float"}
      [] prop_type = "boolean" -> v.t = "bool"
      [] prop_type = "null" -> v.t = "null"
      [] OTHER -> FALSE

Range(seq) == { seq[i] : i \in DOMAIN seq }

\* _validate_schema: "ok" for a return of True, else the exception raised
_validate_schema(data, schema, have_jsonschema) ==
    IF have_jsonschema
    THEN \* jsonschema.validate; a ValidationError is re-raised as ValueError
         IF /\ data.kind = "dict"
            /\ \A f \in Range(schema.required) : f \in DOMAIN data.fields
            /\ \A f \in DOMAIN data.fields \cap DOMAIN schema.properties :
                   JsonSchemaType(data.fields[f], schema.properties[f].type)
         THEN "ok" ELSE "ValueError"
    ELSE \* schema.get("type") == "object" and "properties" in schema
         IF \E f \in Range(schema.required) :
                data.kind = "scalar" /\ data.scalar.t # "str"
         THEN "TypeError"                     \* field not in data: not iterable
         ELSE IF \E f \in Range(schema.required) :
                     ~(data.kind = "dict" /\ f \in DOMAIN data.fields)
         THEN "ValueError"                    \* required field missing
         ELSE IF data.kind # "dict"
         THEN "AttributeError"                \* data.items()
         ELSE IF \E f \in DOMAIN data.fields \cap DOMAIN schema.properties :
                     ~IsInstance(data.fields[f], schema.properties[f].type)
         THEN "ValueError"
         ELSE "ok"

-----------------------------------------------------------------------------
(* The request: messages and response format *)

\* a prompt: its text, its system prompt ("" when the caller gave none) and
\* its schema
Prompt(prompt, system, schema) == [prompt |-> prompt, system |-> system, schema |-> schema]

\* the earlier exchanges of a conversation: response.prompt.prompt and
\* response.text()
Responses == { [prompt |-> "Q1", text |-> "A1"], [prompt |-> "Q2", text |-> "A2"] }

Message(role, content) == [role |-> role, content |-> content]

\* the loop of _build_messages over conversation.responses
RECURSIVE HistoryMessages(_, _, _)
HistoryMessages(responses, i, messages) ==
    IF i > Len(responses) THEN messages
    ELSE HistoryMessages(responses, i + 1,
             messages \o << Message("user", responses[i].prompt),
                            Message("assistant", responses[i].text) >>)

\* _build_messages: the history, then the prompt; prompt.system is not read
_build_messages(prompt, conversation) ==
    Append(HistoryMessages(conversation, 1, <<>>), Message("user", prompt.prompt))

\* the lines of _build_schema_instructions for the properties, in dict order
RECURSIVE PropertyLines(_, _)
PropertyLines(schema, i) ==
    IF i > Len(schema.order) THEN ""
    ELSE LET prop_name == schema.order[i]
             prop_details == schema.properties[prop_name]
         IN  "  \"" \o prop_name \o "\": " \o prop_details.type
             \o (IF prop_details.description # ""
                 THEN " // " \o prop_details.description ELSE "")
             \o (IF prop_name \in { schema.required[j] : j \in DOMAIN schema.required }
                 THEN " (required)" ELSE "")
             \o ",\n" \o PropertyLines(schema, i + 1)

INSTRUCTIONS_HEAD ==
    "You are a helpful assistant that returns responses in JSON format. "
    \o "Your response must follow this schema exactly:\n"

INSTRUCTIONS_TAIL ==
    "\nYour response must be valid JSON and follow this schema exactly. "
    \o "Do not include any explanations or text outside of the JSON structure."

\* _build_schema_instructions: the text, or the exception of schema.get on a
\* value that is no dict. The dicts of type object of the model all carry
\* 'properties'; the others are rendered by json.dumps(schema, indent=2).
_build_schema_instructions(schema) ==
    IF schema.kind # "dict"
    THEN [error |-> "AttributeError", text |-> ""]
    ELSE [error |-> "none",
          text |-> INSTRUCTIONS_HEAD
                   \o (IF schema.type = "object"
                       THEN "{\n" \o PropertyLines(schema, 1) \o "}\n"
                       ELSE "{\n  \"type\": \"" \o schema.type \o "\"\n}")
                   \o INSTRUCTIONS_TAIL]

NoRequest == [error |-> "none", built |-> FALSE, messages |-> <<>>, response_format |-> "none"]

\* messages.insert(0, ...) when there is no system message, else the
\* instructions are appended to the first system message (lines 253-265)
RECURSIVE AppendToSystem(_, _, _)
AppendToSystem(messages, i, schema_instructions) ==
    IF i > Len(messages) THEN messages
    ELSE IF messages[i].role = "system"
    THEN [messages EXCEPT ![i].content = @ \o "\n\n" \o schema_instructions]
    ELSE AppendToSystem(messages, i + 1, schema_instructions)

add_schema_instructions(messages, schema_instructions) ==
    LET has_system == \E i \in DOMAIN messages : messages[i].role = "system"
    IN  IF ~has_system
        THEN <<Message("system", schema_instructions)>> \o messages
        ELSE AppendToSystem(messages, 1, schema_instructions)

\* lines 200-265 of execute: the messages and the response format of the
\* request, or the exception raised while building them
build_request(prompt, conversation) ==
    LET messages == _build_messages(prompt, conversation)
    IN  IF ~prompt.schema.given
        THEN [error |-> "none", built |-> TRUE, messages |-> messages,
              response_format |-> "none"]
        ELSE LET schema == _process_schema(prompt.schema)
                 instructions == _build_schema_instructions(schema)
             IN  IF instructions.error # "none"
                 THEN [error |-> instructions.error, built |-> FALSE,
                       messages |-> messages, response_format |-> "json_object"]
                 ELSE [error |-> "none", built |-> TRUE,
                       messages |-> add_schema_instructions(messages, instructions.text),
                       response_format |-> "json_object"]

-----------------------------------------------------------------------------
(* execute *)

\* the answer to the chat request: neterr (the transport raises), or a
\* response with a status; buffered 2xx responses carry a message content
ChatAnswer(kind, content) == [kind |-> kind, content |-> content]

ChatAnswers(stream) ==
    IF stream
    THEN { ChatAnswer(k, "") : k \in {"neterr", "2xx", "non2xx"} }
    ELSE { ChatAnswer(k, "") : k \in {"neterr", "non2xx"} }
         \cup { ChatAnswer("2xx", c) : c \in Contents }

\* the state of an execute() call: pc is where the generator stands, http
\* the requests it sent, emitted the fragments it yielded, open is TRUE
\* while the streamed response is open, ends counts its terminations
Call(pc, stream, schema, auth, http, status, content, received, emitted, error, open, ends) ==
    [pc |-> pc, stream |-> stream, schema |-> schema,
     authorization |-> auth, http |-> http, status |-> status,
     content |-> content, received |-> received, emitted |-> emitted,
     error |-> error, open |-> open, ends |-> ends, request |-> NoRequest]

NoProbe == [fn |-> "none"]

IdleCall ==
    Call("idle", FALSE, NoSchema, "", <<>>, "none", "", <<>>, <<>>, "none", FALSE, 0)

\* the buffered response yielded as it was received, never re-serialized
buffered_result_verbatim(schema, content, have_jsonschema) ==
    [emitted |-> <<content>>, error |-> "none"]

\* lines 283-297: the schema check of a buffered response and the yield;
\* the except clause names jsonschema.exceptions.ValidationError, whose
\* evaluation raises NameError when the import of jsonschema failed
buffered_result(schema, content, have_jsonschema) ==
    IF ~schema.given
    THEN [emitted |-> <<content>>, error |-> "none"]
    ELSE LET json_content == json_loads(content)
             raised == IF json_content = JSONDecodeError THEN "JSONDecodeError"
                       ELSE LET v == _validate_schema(json_content,
                                         _process_schema(schema), have_jsonschema)
                            IN  IF v = "ok" THEN "none" ELSE v
         IN  IF raised = "none"
             THEN [emitted |-> <<json_dumps(json_content)>>, error |-> "none"]
             ELSE IF ~have_jsonschema
             THEN [emitted |-> <<>>, error |-> "NameError"]
             ELSE IF raised \in {"JSONDecodeError", "ValueError"}
             THEN [emitted |-> <<content>>, error |-> "none"]
             ELSE [emitted |-> <<>>, error |-> raised]

\* the Authorization header, f"Bearer {api_key}"; get_key gives None for a
\* key that is not set
Authorization(key) == IF key THEN "Bearer <key>" ELSE "Bearer None"

\* the requests of a call that got as far as the chat request, with the
\* chat request sent again after a transport error
requests_retry(g, chat) ==
    g.http \o (IF chat.kind = "neterr" THEN <<POST_CHAT, POST_CHAT>> ELSE <<POST_CHAT>>)

\* the requests of a call that got as far as the chat request: those of
\* self.model_map, then one httpx.post or httpx.stream
requests(g, chat) == g.http \o <<POST_CHAT>>

\* execute up to its first suspension: g is what self.model_map (get_models)
\* did, chat the answer of the chat endpoint
execute(stream, prompt, conversation, key, g, chat, have_jsonschema) ==
    LET auth == Authorization(key)
        schema == prompt.schema
        http == requests(g, chat)
        req == build_request(prompt, conversation)
    IN  IF g.outcome = "raised"
        THEN Call("raised", stream, schema, auth, g.http, "none", "", <<>>, <<>>,
                  "model_map", FALSE, 1)
        ELSE IF req.error # "none"
        THEN Call("raised", stream, schema, auth, g.http, "none", "", <<>>, <<>>,
                  req.error, FALSE, 1)
        ELSE IF chat.kind = "neterr"
        THEN [Call("raised", stream, schema, auth, http, "none", "", <<>>, <<>>,
                   "RequestError", FALSE, 1) EXCEPT !.request = req]
        ELSE IF stream
        THEN [Call("streaming", stream, schema, auth, http, chat.kind, "", <<>>, <<>>,
                   "none", TRUE, 0) EXCEPT !.request = req]
        ELSE IF chat.kind = "non2xx"
        THEN [Call("raised", stream, schema, auth, http, chat.kind, "", <<>>, <<>>,
                   "HTTPStatusError", FALSE, 1) EXCEPT !.request = req]
        ELSE LET b == buffered_result(schema, chat.content, have_jsonschema)
             IN  [Call(IF b.error = "none" THEN "done" ELSE "raised",
                       stream, schema, auth, http, chat.kind, chat.content, <<>>,
                       b.emitted, b.error, FALSE, 1) EXCEPT !.request = req]

\* the prompt of the chat calls: no system prompt, no earlier exchange
ChatPrompt(schema) == Prompt("Hi", "", schema)

\* the catalog answers tried under a chat call: a failure and a success
ChatCatalogAnswers(c, t, key) ==
    CatalogAnswers(FALSE, c, t, key)
        \cap { NoResponse, CatalogResponse("neterr", <<>>),
               CatalogResponse("data", <<"llama3.1-8b">>) }

\* the host calls execute and pulls the generator
Execute ==
    /\ call.pc # "streaming"
    /\ \E stream \in BOOLEAN, schema \in Schemas,
          resp \in ChatCatalogAnswers(cache, now, api_key),
          saveOutcome \in {"ok"} :
        LET g == get_models(FALSE, cache, now, api_key, resp, saveOutcome)
        IN  /\ cache' = g.cache
            /\ op' = OpRecord("model_map", g, resp, cache, now, 0, "nothing", 0)
            /\ \E chat \in (IF g.outcome = "raised" THEN {ChatAnswer("neterr", "")}
                            ELSE ChatAnswers(stream)) :
                  call' = execute(stream, ChatPrompt(schema), <<>>, api_key, g, chat,
                                  HAVE_JSONSCHEMA)
    /\ UNCHANGED <<now, ticks, api_key, HAVE_JSONSCHEMA, probe, race>>

\* a line of the streamed body: data is TRUE iff it starts with "data: ";
\* chunk is the rest: the terminator, an event with a content, an event
\* whose delta has no content, or text that is not JSON
Line(data, chunk, content) == [data |-> data, chunk |-> chunk, content |-> content]

Lines ==
    { Line(TRUE, "[DONE]", ""), Line(TRUE, "delta", "Hel"), Line(TRUE, "delta", "lo"),
      Line(TRUE, "delta", ""), Line(TRUE, "notjson", ""), Line(FALSE, "other", "") }

\* lines 272-277: one iteration of the loop over r.iter_lines()
stream_line(c, line) ==
    LET received == Append(c.received, line)
    IN  IF line.data /\ line.chunk # "[DONE]"
        THEN IF line.chunk = "notjson"
             THEN [c EXCEPT !.pc = "raised", !.received = received,
                            !.error = "JSONDecodeError", !.open = FALSE, !.ends = @ + 1]
             ELSE IF line.content # ""
             THEN [c EXCEPT !.received = received,
                            !.emitted = Append(@, line.content)]
             ELSE [c EXCEPT !.received = received]
        ELSE [c EXCEPT !.received = received]

StreamLine ==
    /\ call.pc = "streaming"
    /\ Len(call.received) < MaxLines
    /\ \E line \in Lines : call' = stream_line(call, line)
    /\ UNCHANGED <<cache, now, ticks, api_key, HAVE_JSONSCHEMA, op, probe, race>>

\* r.iter_lines() is exhausted: the with block and the generator end
stream_end(c) == [c EXCEPT !.pc = "done", !.open = FALSE, !.ends = @ + 1]

StreamEnd ==
    /\ call.pc = "streaming"
    /\ call' = stream_end(call)
    /\ UNCHANGED <<cache, now, ticks, api_key, HAVE_JSONSCHEMA, op, probe, race>>

\* r.iter_lines() raises: the transport failed while the body was read; the
\* exception leaves the with block, which closes the response
stream_error(c) ==
    [c EXCEPT !.pc = "raised", !.error = "ReadError", !.open = FALSE, !.ends = @ + 1]

StreamTransportError ==
    /\ call.pc = "streaming"
    /\ call' = stream_error(call)
    /\ UNCHANGED <<cache, now, ticks, api_key, HAVE_JSONSCHEMA, op, probe, race>>

\* the generator is suspended at the yield of line 277
Suspended(c) ==
    /\ c.pc = "streaming"
    /\ c.received # <<>>
    /\ LET line == c.received[Len(c.received)]
       IN  line.data /\ line.chunk = "delta" /\ line.content # ""

\* close() of the generator with the response left open
stream_close_leak(c) == [c EXCEPT !.pc = "closed", !.ends = @ + 1]

\* the consumer stops pulling and closes the generator: GeneratorExit is
\* raised at the yield and leaves the with block, which closes the response
stream_close(c) == [c EXCEPT !.pc = "closed", !.open = FALSE, !.ends = @ + 1]

StreamClose ==
    /\ Suspended(call)
    /\ call' = stream_close(call)
    /\ UNCHANGED <<cache, now, ticks, api_key, HAVE_JSONSCHEMA, op, probe, race>>

-----------------------------------------------------------------------------
(* The helper methods applied directly to inputs *)

\* number of earlier exchanges of a conversation
MaxHistory == 2

Conversations == UNION { [1..n -> Responses] : n \in 0..MaxHistory }

Prompts == { Prompt("Hi", system, schema) : system \in {"", "Be terse"}, schema \in Schemas }

\* lines 200-265 of execute on a prompt and a conversation
BuildRequest ==
    /\ \E prompt \in Prompts, conversation \in Conversations :
          probe' = [fn |-> "build_request", prompt |-> prompt,
                    conversation |-> conversation,
                    out |-> build_request(prompt, conversation)]
    /\ UNCHANGED <<cache, now, ticks, api_key, HAVE_JSONSCHEMA, op, call, race>>

\* number of clauses of a schema text
MaxClauses == 2

\* A clause of a schema text: a field name, a type token ("" when absent)
\* and a description after a colon ("" when absent); spaced is TRUE when a
\* space stands before the colon.
Clause(name, type, description, spaced) ==
    [name |-> name, type |-> type, description |-> description, spaced |-> spaced]

Clauses ==
    { Clause("age", type, "", FALSE) :
        type \in {"", "int", "float", "str", "string", "bool", "INT", "date"} }
    \cup { Clause("name", type, "surname", spaced) :
             type \in {"", "int"}, spaced \in BOOLEAN }
    \cup { Clause("name", "", "", FALSE) }

ClauseText(c) ==
    <<c.name>> \o (IF c.type = "" THEN <<>> ELSE <<" ", c.type>>)
    \o (IF c.description = "" THEN <<>>
        ELSE (IF c.spaced THEN <<" ">> ELSE <<>>) \o <<":", " ", c.description>>)

\* the clauses joined by a separator
RECURSIVE Text(_, _)
Text(clauses, sep) ==
    IF Len(clauses) = 1 THEN ClauseText(clauses[1])
    ELSE ClauseText(clauses[1]) \o sep \o Text(Tail(clauses), sep)

\* the clause lists with the separator that joins them: ", " or a newline
MiniTexts ==
    { [clauses |-> cs, schema |-> StrSchema(Text(cs, sep))] :
        cs \in UNION { [1..n -> Clauses] : n \in 1..MaxClauses },
        sep \in { <<",", " ">>, <<"\n">> } }

\* the other values handed to _process_schema: None, dicts, JSON texts
OtherSchemas ==
    { [clauses |-> <<>>, schema |-> sch] :
        sch \in Schemas \cup { StrSchema(<<t>>) : t \in {"3", "[3]", "\"name\"", "true", "null"} }
                \cup { StrSchema(<<"{\"type\"", ":", "\"string\"}">>) } }

\* _process_schema on a value, and _build_schema_instructions on its result
Normalize ==
    /\ \E input \in MiniTexts \cup OtherSchemas :
          probe' = [fn |-> "_process_schema", schema |-> input.schema,
                    clauses |-> input.clauses,
                    out |-> _process_schema(input.schema),
                    instructions |-> _build_schema_instructions(_process_schema(input.schema))]
    /\ UNCHANGED <<cache, now, ticks, api_key, HAVE_JSONSCHEMA, op, call, race>>

\* the parsed responses and the object schemas handed to _validate_schema
ValidateData ==
    { JObject(EmptyFields), JList, JScalar(JInt(3)) }
    \cup { JObject("x" :> v) : v \in {JInt(3), JStr("3"), JBool(TRUE), JNull} }

ObjectSchemas ==
    { DictSchema(<<"x">>, "x" :> Property(type, ""), required) :
        type \in {"integer", "string", "number", "boolean"}, required \in {<<>>, <<"x">>} }

\* _validate_schema on a parsed response and a schema
Validate ==
    /\ \E data \in ValidateData, schema \in ObjectSchemas :
          probe' = [fn |-> "_validate_schema", data |-> data, schema |-> schema,
                    out |-> _validate_schema(data, schema, HAVE_JSONSCHEMA)]
    /\ UNCHANGED <<cache, now, ticks, api_key, HAVE_JSONSCHEMA, op, call, race>>

PureInit ==
    /\ cache = AbsentCache
    /\ now = 0
    /\ ticks = 0
    /\ api_key = TRUE
    /\ HAVE_JSONSCHEMA \in BOOLEAN
    /\ op = NoOp
    /\ call = IdleCall
    /\ probe = NoProbe
    /\ race = NoRace

PureNext ==
    \/ BuildRequest
    \/ Normalize
    \/ Validate

PureSpec == PureInit /\ [][PureNext]_vars

ChatInit ==
    /\ cache \in { AbsentCache, CacheFile("nonmapping", "missing", 0, EmptyMap),
                   CacheFile("mapping", "num", 0, fallback_models) }
    /\ now = 0
    /\ ticks = 0
    /\ api_key \in BOOLEAN
    /\ HAVE_JSONSCHEMA \in BOOLEAN
    /\ op = NoOp
    /\ call = IdleCall
    /\ probe = NoProbe
    /\ race = NoRace

ChatNext ==
    \/ Execute
    \/ StreamLine
    \/ StreamEnd
    \/ StreamTransportError
    \/ StreamClose

ChatSpec == ChatInit /\ [][ChatNext]_vars

-----------------------------------------------------------------------------

Init ==
    /\ cache \in InitialCacheFiles
    /\ now = 0
    /\ ticks = 0
    /\ api_key \in BOOLEAN
    /\ HAVE_JSONSCHEMA = TRUE
    /\ op = NoOp
    /\ call = IdleCall
    /\ probe = NoProbe
    /\ race = NoRace

Next ==
    \/ RegisterModels
    \/ RefreshCommand
    \/ Tick

Spec == Init /\ [][Next]_vars

-----------------------------------------------------------------------------
(* Properties of the catalog cache, checked under Spec *)

\* the cache file held a JSON mapping with a numeric timestamp of age <= 24 h
Fresh(c, t) == c.kind = "mapping" /\ c.tsKind = "num" /\ t - c.ts <= cache_duration
\* ... of age > 24 h
Expired(c, t) == c.kind = "mapping" /\ c.tsKind = "num" /\ t - c.ts > cache_duration

CacheHit == op.outcome = "returned" /\ op.result = op.cacheBefore.models
            /\ op.http = <<>> /\ ~op.fetched

\* C1 as stated: get_models(refresh=False) with a cache of age <= 24 h
\* returns the cached entries without a network call; with a cache older
\* than 24 h it performs a remote catalog fetch.
C1_FreshCacheReturned ==
    op.name = "register_models" =>
        /\ Fresh(op.cacheBefore, op.at) => CacheHit
        /\ Expired(op.cacheBefore, op.at) => op.fetched

\* C1 amended: get_models(refresh=False) with a cache of age <= 24 h whose
\* models mapping is not empty returns the cached entries, calls no fetch and
\* sends no request; with a cache older than 24 h it calls the catalog fetch,
\* which sends the catalog request iff the credential is present.
C1_FreshNonEmptyCacheReturned ==
    op.name = "register_models" =>
        /\ (Fresh(op.cacheBefore, op.at) /\ Truthy(op.cacheBefore.models)) => CacheHit
        /\ Expired(op.cacheBefore, op.at) =>
              /\ op.fetched
              /\ op.http = IF api_key THEN <<GET_MODELS>> ELSE <<>>

\* a cache read at the age of exactly 24 h and returned
C1_Witness ==
    /\ op.name = "register_models"
    /\ op.cacheBefore.kind = "mapping" /\ op.cacheBefore.tsKind = "num"
    /\ op.at - op.cacheBefore.ts = cache_duration
    /\ Truthy(op.cacheBefore.models)
    /\ CacheHit

\* C2 as stated: get_models never raises, whatever the cache file holds,
\* and a cache that cannot be read or parsed is handled like a cache miss
\* (the catalog fetch is called).
C2_GetModelsNeverRaises ==
    op.name = "register_models" =>
        /\ op.outcome = "returned"
        /\ ~(Fresh(op.cacheBefore, op.at) \/ Expired(op.cacheBefore, op.at)) => op.fetched

\* C3 as stated: a 2xx catalog answer without a `data` field makes the
\* fetch return the fallback table of 4 mappings.
C3_NoDataGivesFallback ==
    op.respKind = "nodata" =>
        op.result = fallback_models /\ Cardinality(DOMAIN op.result) = 4

\* C4 as stated: get_models writes the cache file only when the remote fetch
\* succeeded; when the fallback table is returned the file is left unchanged.
C4_CacheWrittenOnlyOnSuccess ==
    (op.name # "none" /\ ~op.fetchOk) => cache = op.cacheBefore

\* C5 as stated: the refresh command returns non-zero and prints the error
\* when the forced re-fetch failed, and returns zero and reports the models
\* only when it succeeded.
C5_RefreshFailureExitsNonZero ==
    op.name = "refresh" =>
        /\ ~op.fetchOk => (op.exit # 0 /\ op.printed = "error")
        /\ op.exit = 0 => (op.fetchOk /\ op.printed = "models")

\* C15: without the credential a forced refresh, get_models(True), returns
\* exactly the 4 fallback entries and sends no HTTP request.
C15_NoKeyRefreshGivesFallback ==
    (op.name = "refresh" /\ ~api_key) =>
        /\ op.outcome = "returned"
        /\ op.result = fallback_models
        /\ Cardinality(DOMAIN op.result) = 4
        /\ op.http = <<>>

\* a forced refresh without the credential, over a cache that held a mapping
C15_Witness ==
    /\ op.name = "refresh" /\ ~api_key
    /\ op.cacheBefore.kind = "mapping"
    /\ op.fetched /\ op.result = fallback_models /\ op.http = <<>>

\* the last operation was a forced refresh that returned and whose save
\* succeeded, and no time has passed since
Refreshed ==
    /\ op.name = "refresh" /\ op.outcome = "returned"
    /\ cache = CacheFile("mapping", "num", op.at, op.result)
    /\ now = op.at

\* the step is a get_models(refresh=False) that returns the mapping of the
\* last operation and neither fetches nor sends a request
ReadBack ==
    /\ op'.outcome = "returned" /\ op'.result = op.result
    /\ op'.http = <<>> /\ ~op'.fetched
    /\ cache' = cache

\* C19 as stated: after get_models(refresh=True) returned a mapping M and the
\* save succeeded, an immediately following get_models(refresh=False)
\* returns the same M and performs no network call, for every M the fetch
\* can produce, the empty mapping included.
C19_RoundTrip ==
    [][(Refreshed /\ op'.name = "register_models") => ReadBack]_vars

\* C19 amended: the same for every M that is not empty; after an empty M
\* the following get_models(refresh=False) calls the catalog fetch again.
C19_RoundTripNonEmpty ==
    [][(Refreshed /\ op'.name = "register_models") =>
          IF op.result # EmptyMap THEN ReadBack ELSE op'.fetched]_vars

\* get_models(refresh=False) read back, at the instant it was written, a
\* mapping that only a catalog fetch produces
C19_Witness ==
    /\ op.name = "register_models" /\ CacheHit
    /\ op.cacheBefore = CacheFile("mapping", "num", op.at, op.result)
    /\ op.result = ("cerebras-llama3.1-8b" :> "llama3.1-8b")
    /\ cache = op.cacheBefore /\ now = op.at

-----------------------------------------------------------------------------
(* Properties of the chat call, checked under ChatSpec *)

Terminal == call.pc \in {"done", "raised", "closed"}

ChatRequests == Cardinality({ i \in DOMAIN call.http : call.http[i] = POST_CHAT })

\* C6 as stated: a chat call made without the credential ends in a hard
\* error and sends no request to the chat-completions endpoint.
C6_NoKeyNoChatRequest ==
    (call.pc # "idle" /\ ~api_key) => (call.pc = "raised" /\ ChatRequests = 0)

\* C7 as stated: a non-2xx answer of the chat endpoint aborts the call with
\* a hard error and no fragment, in streaming as in buffered mode, and the
\* request is not retried.
C7_Non2xxAborts ==
    (Terminal /\ call.status = "non2xx") =>
        (call.pc = "raised" /\ call.emitted = <<>> /\ ChatRequests = 1)

IsDone(line) == line.data /\ line.chunk = "[DONE]"

\* the lines received before the first terminator
BeforeDone(received) ==
    LET done == { i \in DOMAIN received : IsDone(received[i]) }
    IN  IF done = {} THEN received
        ELSE SubSeq(received, 1, (CHOOSE i \in done : \A j \in done : i <= j) - 1)

\* the contents of the data events of a sequence of lines, in order
Fragments(lines) ==
    LET events == SelectSeq(lines, LAMBDA l : l.data /\ l.chunk = "delta" /\ l.content # "")
    IN  [i \in DOMAIN events |-> events[i].content]

\* C8 as stated: in streaming mode the emitted sequence is exactly the
\* content fragments of the data events received before [DONE], in arrival
\* order; no fragment of an event after [DONE] is emitted.
C8_NothingEmittedAfterDone ==
    (call.stream /\ call.status = "2xx") =>
        call.emitted = Fragments(BeforeDone(call.received))

\* C9 as stated: in a buffered call with a schema, with or without the full
\* validator, a text that fails JSON parsing or validation is yielded
\* unchanged and no exception reaches the caller.
C9_InvalidOutputPassedThrough ==
    (Terminal /\ ~call.stream /\ call.schema.given /\ call.status = "2xx") =>
        LET json_content == json_loads(call.content)
            invalid == \/ json_content = JSONDecodeError
                       \/ _validate_schema(json_content, call.schema,
                                           HAVE_JSONSCHEMA) # "ok"
        IN  invalid => (call.pc = "done" /\ call.emitted = <<call.content>>)

\* C10 as stated: a chat call performs exactly one network call, the chat
\* request, and reaches its terminal state once, whatever the state of the
\* catalog cache (a call that raised while reading the cache or building
\* the request is left aside).
C10_OneRequestPerCall ==
    (Terminal /\ call.request.built) =>
        (call.ends = 1 /\ call.http = <<POST_CHAT>>)

\* C10 amended: a chat call sends at most one chat request, never repeated,
\* as its last request, and exactly one unless reading the cache or building
\* the request raised; it reaches its terminal state once; before that it
\* sends one catalog request exactly when get_models misses the cache and
\* the credential is present.
C10_OneChatRequestPerCall ==
    call.pc # "idle" =>
        /\ call.http \in {<<>>, <<GET_MODELS>>, <<POST_CHAT>>, <<GET_MODELS, POST_CHAT>>}
        /\ (ChatRequests = 0) <=> ~call.request.built
        /\ ~call.request.built <=>
              (call.pc = "raised" /\ call.error \in {"model_map", "AttributeError"}
               /\ call.status = "none")
        /\ (call.http # <<>> /\ call.http[1] = GET_MODELS) <=> (op.fetched /\ api_key)
        /\ call.ends = IF Terminal THEN 1 ELSE 0

\* a finished call that fetched the catalog before its chat request
C10_Witness ==
    /\ call.pc = "done"
    /\ call.http = <<GET_MODELS, POST_CHAT>>
    /\ op.cacheBefore.kind = "absent"

\* C17: in streaming mode the response opened for the call is closed on
\* every exit path: after normal completion, after the consumer closed the
\* generator early, and after a transport or chunk-parse error no stream
\* stays open; a stream is open only while the call is streaming.
C17_StreamReleasedOnEveryExit ==
    /\ Terminal => ~call.open
    /\ call.open => (call.stream /\ call.pc = "streaming")
    /\ (call.stream /\ call.pc = "streaming") => call.open

\* the consumer closed the generator after a first fragment
C17_Witness ==
    /\ call.pc = "closed" /\ ~call.open
    /\ call.stream /\ call.emitted # <<>> /\ call.ends = 1

\* the content of a buffered response parses and validates against the schema
Valid(content, schema, have_jsonschema) ==
    /\ json_loads(content) # JSONDecodeError
    /\ _validate_schema(json_loads(content), _process_schema(schema), have_jsonschema) = "ok"

\* C18: the response is validated only in buffered mode. A streaming call
\* with a schema still sends the json_object response format and the schema
\* instructions as system message, emits the provider's fragments unchanged
\* and never ends in a validation error; a buffered call with a schema whose
\* output parses and validates yields one text, the re-serialization of the
\* parsed value, which parses back to the same value.
C18_ValidationOnlyWhenBuffered ==
    /\ (call.stream /\ call.schema.given /\ call.request.built) =>
          /\ call.request.response_format = "json_object"
          /\ call.request.messages[1] =
                Message("system", _build_schema_instructions(_process_schema(call.schema)).text)
          /\ call.emitted = Fragments(call.received)
          /\ call.error \in {"none", "RequestError", "ReadError", "JSONDecodeError"}
    /\ (~call.stream /\ call.schema.given /\ call.status = "2xx"
        /\ Valid(call.content, call.schema, HAVE_JSONSCHEMA)) =>
          /\ call.pc = "done"
          /\ call.emitted = <<json_dumps(json_loads(call.content))>>
          /\ json_loads(call.emitted[1]) = json_loads(call.content)

\* a buffered call with a schema whose valid output was yielded re-serialized,
\* with a text that differs from the provider's
C18_Witness ==
    /\ call.pc = "done" /\ ~call.stream /\ call.schema.given
    /\ call.content = "{\"x\":3}"
    /\ call.emitted = <<"{\"x\": 3}">>
    /\ call.request.response_format = "json_object"

-----------------------------------------------------------------------------
(* Properties of the helper methods, checked under PureSpec *)

SystemMessages(messages) == SelectSeq(messages, LAMBDA m : m.role = "system")
OtherMessages(messages) == SelectSeq(messages, LAMBDA m : m.role # "system")

\* the history as user/assistant pairs in order, then the new prompt
Chronological(prompt, conversation) ==
    [i \in 1..(2 * Len(conversation) + 1) |->
        IF i = 2 * Len(conversation) + 1 THEN Message("user", prompt.prompt)
        ELSE IF i % 2 = 1 THEN Message("user", conversation[(i + 1) \div 2].prompt)
        ELSE Message("assistant", conversation[i \div 2].text)]

\* C11 as stated: the messages are the history as user/assistant pairs in
\* chronological order with the new prompt last, and at most one system
\* message; with a schema that system message holds the schema
\* instructions, and when the caller supplied a system message the
\* instructions are appended to it.
C11_MessagesOrderedOneSystem ==
    (probe.fn = "build_request" /\ probe.out.error = "none") =>
        LET messages == probe.out.messages
            system == SystemMessages(messages)
            instructions == _build_schema_instructions(probe.prompt.schema).text
        IN  /\ OtherMessages(messages) = Chronological(probe.prompt, probe.conversation)
            /\ Len(system) <= 1
            /\ probe.prompt.schema.given =>
                  /\ Len(system) = 1
                  /\ system[1].content =
                        IF probe.prompt.system = "" THEN instructions
                        ELSE probe.prompt.system \o "\n\n" \o instructions

\* the type a clause declares: its token, read without regard to case,
\* mapped int->integer, float->number, str/string->string, bool->boolean,
\* anything else or absent->string
DeclaredType(token) ==
    CASE token \in {"int", "INT"} -> "integer"
      [] token = "float" -> "number"
      [] token = "bool" -> "boolean"
      [] OTHER -> "string"

\* a sequence without its repetitions, in the order of first occurrence
RECURSIVE Distinct(_)
Distinct(seq) ==
    IF seq = <<>> THEN <<>>
    ELSE LET init == Distinct(SubSeq(seq, 1, Len(seq) - 1))
         IN  IF seq[Len(seq)] \in Range(init) THEN init ELSE Append(init, seq[Len(seq)])

\* C13 as stated: for every schema text of the mini-language (clauses
\* separated by commas when it has no newline, else by newlines),
\* normalization returns an object schema whose properties are exactly the
\* declared field names, each with the type its clause declares, and whose
\* required lists every declared field name once, in clause order.
C13_MiniLanguageNormalized ==
    (probe.fn = "_process_schema" /\ probe.clauses # <<>>) =>
        LET names == [i \in DOMAIN probe.clauses |-> probe.clauses[i].name]
        IN  /\ probe.out.kind = "dict" /\ probe.out.type = "object"
            /\ DOMAIN probe.out.properties = Range(names)
            /\ \A i \in DOMAIN probe.clauses :
                  probe.out.properties[names[i]].type = DeclaredType(probe.clauses[i].type)
            /\ probe.out.required = Distinct(names)

\* C14 as stated: without the full validator, for an object schema and a
\* mapping as data, validation fails with a ValueError naming the field when
\* a required name is no key of the data or a key of both data and
\* properties has a value whose kind is not the declared one (a boolean is
\* no whole number), and succeeds otherwise.
C14_ReducedValidatorChecksKinds ==
    (probe.fn = "_validate_schema" /\ ~HAVE_JSONSCHEMA /\ probe.data.kind = "dict") =>
        LET missing == \E f \in Range(probe.schema.required) : f \notin DOMAIN probe.data.fields
            mismatch == \E f \in DOMAIN probe.data.fields \cap DOMAIN probe.schema.properties :
                            ~JsonSchemaType(probe.data.fields[f], probe.schema.properties[f].type)
        IN  probe.out = IF missing \/ mismatch THEN "ValueError" ELSE "ok"

\* C16 as stated: for every value the normalizer accepts (a mapping, a text
\* that parses as JSON, a text that does not, None) it returns a mapping
\* with a type, and the instruction compiler applied to that result raises
\* nothing; this includes texts whose JSON value is no object.
C16_NormalizerReturnsCanonical ==
    probe.fn = "_process_schema" =>
        /\ probe.out.kind = "dict" /\ probe.out.type # ""
        /\ probe.instructions.error = "none"

-----------------------------------------------------------------------------
(* Properties of concurrent calls of get_models, checked under RaceSpec *)

\* no process stands between its open(cache_file, 'w') and the end of its write
Quiescent == \A p \in Procs : race.proc[p].pc \in {"idle", "done"}

\* C12 as stated: when two processes run get_models concurrently and both
\* write the cache file, then after both finish the file holds the complete
\* document of one of the writers, and a reader that overlaps a write gets
\* the models of a complete document or re-fetches.
C12_ConcurrentWritesNeverCorrupt ==
    /\ (Quiescent /\ race.exists) =>
          /\ Complete(race.file)
          /\ race.file = Document(race.writes[Len(race.writes)], now)
    /\ \A p \in Procs : race.proc[p].hit =>
          \E resp \in RaceResponses :
              race.proc[p].models = fetch_models_from_api(TRUE, resp).models

====
